---- MODULE Spec2Model ----
(***************************************************************************)
(* carlog (src/src/lib.rs): the Status builder, Status::print and its      *)
(* stdout/stderr variants, the carlog! macro and its four presets.         *)
(*                                                                         *)
(* A Rust String is its UTF-8 byte vector, so every text is a sequence of  *)
(* bytes and String::len is Len.  A destination is the trace of the calls  *)
(* made on it (write!/writeln!/flush), each tagged with the calling        *)
(* thread; its content is the concatenation of the written data.           *)
(***************************************************************************)
EXTENDS Integers, Sequences, FiniteSets

\* ------------------------------------------------------------------ bounds
NumThreads == 2
MaxCfgCalls == 4
MaxPartial == 1

\* --------------------------------------------------------------- constants
Width == 12

Threads == 1..NumThreads
NoThread == 0

\* ------------------------------------------------------------------- texts
Compiled == <<67, 111, 109, 112, 105, 108, 101, 100>>
Verifie == <<86, 195, 169, 114, 105, 102, 105, 195, 169>>
Uninstalling == <<85, 110, 105, 110, 115, 116, 97, 108, 108, 105, 110, 103>>
Documentation == <<68, 111, 99, 117, 109, 101, 110, 116, 97, 116, 105, 111, 110>>
WarningText == <<119, 97, 114, 110, 105, 110, 103>>
ErrorText == <<101, 114, 114, 111, 114>>

\* Status texts and messages the callers pass (none contains an escape byte).
StatusTexts == {<< >>, Compiled, Verifie, Uninstalling, Documentation}
Messages == {<< >>, <<118, 49>>}

\* The number of characters of a UTF-8 text: its bytes that are not
\* continuation bytes (10xxxxxx).
CharCount(s) == Cardinality({i \in 1..Len(s) : s[i] \div 64 # 2})

RECURSIVE Repeat(_, _)
Repeat(s, n) == IF n = 0 THEN << >> ELSE s \o Repeat(s, n - 1)

saturating_sub(a, b) == IF a >= b THEN a - b ELSE 0

\* ------------------------------------------------------------------ colors
CargoColors == {"Green", "Cyan", "Yellow", "Red", "White", "Black"}
CargoColorDefault == "White"

CarlogStreams == {"Stdout", "Stderr", "Custom"}
CarlogStreamDefault == "Stdout"

\* The escape sequences the tests of lib.rs pin down: "\x1b[" params "m" ...
\* "\x1b[0m", with the parameters joined by ";".
Csi == <<27, 91>>
SgrEnd == <<109>>
Reset == <<27, 91, 48, 109>>
BoldCode == <<49>>

\* The colored string the match of color_str builds: the input, its
\* foreground code and whether it is bold.
green(s) == [input |-> s, fg |-> <<51, 50>>, bold |-> FALSE]
cyan(s) == [input |-> s, fg |-> <<51, 54>>, bold |-> FALSE]
bright_yellow(s) == [input |-> s, fg |-> <<57, 51>>, bold |-> FALSE]
bright_red(s) == [input |-> s, fg |-> <<57, 49>>, bold |-> FALSE]
white(s) == [input |-> s, fg |-> <<51, 55>>, bold |-> FALSE]
black(s) == [input |-> s, fg |-> <<51, 48>>, bold |-> FALSE]

make_bold(c) == [c EXCEPT !.bold = TRUE]

\* Faulty variant: the bold sequence nested inside the color wrapping.
to_string_nested(c) ==
    Csi \o c.fg \o SgrEnd
        \o (IF c.bold THEN Csi \o BoldCode \o SgrEnd \o c.input \o Reset ELSE c.input)
        \o Reset

to_string(c) ==
    Csi \o (IF c.bold THEN BoldCode \o <<59>> ELSE << >>) \o c.fg \o SgrEnd
        \o c.input \o Reset

color_str(color, bold, str) ==
    LET colored == CASE color = "Green" -> green(str)
                     [] color = "Cyan" -> cyan(str)
                     [] color = "Yellow" -> bright_yellow(str)
                     [] color = "Red" -> bright_red(str)
                     [] color = "White" -> white(str)
                     [] color = "Black" -> black(str)
    IN  to_string(IF bold THEN make_bold(colored) ELSE colored)

\* ----------------------------------------------------------------- builder
new == [justify |-> FALSE, bold |-> FALSE, color |-> CargoColorDefault,
        status |-> << >>]

justify(self) == [self EXCEPT !.justify = TRUE]

\* Faulty variant: bold() sets the wrong flag.
bold_sets_justify(self) == [self EXCEPT !.justify = TRUE]

bold(self) == [self EXCEPT !.bold = TRUE]

color(self, c) == [self EXCEPT !.color = c]

status(self, str) == [self EXCEPT !.status = str]

\* ------------------------------------------------------------------- state
VARIABLES
    pc,        \* each thread's position
    st,        \* each thread's Status value (the builder, then print's self)
    hist,      \* the configuration calls made on the Status so far
    call,      \* the entry point a thread is in and its arguments
    rendered,  \* print's local `status`
    ioRes,     \* the io::Result print returns
    res,       \* what the entry point hands to its caller
    stdoutS,   \* the calls made on standard output
    stderrS,   \* the calls made on standard error
    custom,    \* the calls made on each thread's own sink
    lock       \* the holder of the lock of stdout and of stderr

vars == <<pc, st, hist, call, rendered, ioRes, res, stdoutS, stderrS, custom, lock>>

NoCall == [entry |-> "none", via |-> "none", dest |-> "None", msg |-> << >>,
           argStatus |-> << >>, argMsg |-> << >>, explicit |-> FALSE]

NoResult == [kind |-> "None", err |-> "none"]
Ok == [kind |-> "Ok", err |-> "none"]
Err(e) == [kind |-> "Err", err |-> e]
Panic(e) == [kind |-> "Panic", err |-> e]

IoErrors == {"BrokenPipe", "WriteZero"}

\* What the destination does with one call: it succeeds, or it fails with an
\* error after taking the first `cut` bytes.
Success == [err |-> "none", cut |-> 0]
Outcomes == {Success} \cup {[err |-> e, cut |-> k] : e \in IoErrors, k \in 0..MaxPartial}
ConcOutcomes == {Success, [err |-> "BrokenPipe", cut |-> 0], [err |-> "BrokenPipe", cut |-> 1]}

NoHist == [justify |-> FALSE, bold |-> FALSE, color |-> CargoColorDefault,
           status |-> << >>, n |-> 0]

\* The sink of thread t holds the t-1 lines its owner wrote to it before.
PriorLine == [op |-> "write", by |-> NoThread, data |-> <<120, 10>>, err |-> "none"]
PriorTrace(t) == [i \in 1..(t - 1) |-> PriorLine]

\* A sequential program: thread 1 alone runs.
Init ==
    /\ pc = [t \in Threads |-> IF t = 1 THEN "idle" ELSE "off"]
    /\ st = [t \in Threads |-> new]
    /\ hist = [t \in Threads |-> NoHist]
    /\ call = [t \in Threads |-> NoCall]
    /\ rendered = [t \in Threads |-> << >>]
    /\ ioRes = [t \in Threads |-> NoResult]
    /\ res = [t \in Threads |-> NoResult]
    /\ stdoutS = << >>
    /\ stderrS = << >>
    /\ custom = [t \in Threads |-> PriorTrace(t)]
    /\ lock = [d \in {"Stdout", "Stderr"} |-> NoThread]

\* --------------------------------------------------- configuration calls
CallNew(t) ==
    /\ pc[t] = "idle"
    /\ pc' = [pc EXCEPT ![t] = "cfg"]
    /\ st' = [st EXCEPT ![t] = new]
    /\ hist' = [hist EXCEPT ![t] = NoHist]
    /\ UNCHANGED <<call, rendered, ioRes, res, stdoutS, stderrS, custom, lock>>

CallJustify(t) ==
    /\ pc[t] = "cfg"
    /\ hist[t].n < MaxCfgCalls
    /\ st' = [st EXCEPT ![t] = justify(st[t])]
    /\ hist' = [hist EXCEPT ![t].justify = TRUE, ![t].n = @ + 1]
    /\ UNCHANGED <<pc, call, rendered, ioRes, res, stdoutS, stderrS, custom, lock>>

CallBold(t) ==
    /\ pc[t] = "cfg"
    /\ hist[t].n < MaxCfgCalls
    /\ st' = [st EXCEPT ![t] = bold(st[t])]
    /\ hist' = [hist EXCEPT ![t].bold = TRUE, ![t].n = @ + 1]
    /\ UNCHANGED <<pc, call, rendered, ioRes, res, stdoutS, stderrS, custom, lock>>

CallColor(t, c) ==
    /\ pc[t] = "cfg"
    /\ hist[t].n < MaxCfgCalls
    /\ st' = [st EXCEPT ![t] = color(st[t], c)]
    /\ hist' = [hist EXCEPT ![t].color = c, ![t].n = @ + 1]
    /\ UNCHANGED <<pc, call, rendered, ioRes, res, stdoutS, stderrS, custom, lock>>

CallStatus(t, s) ==
    /\ pc[t] = "cfg"
    /\ hist[t].n < MaxCfgCalls
    /\ st' = [st EXCEPT ![t] = status(st[t], s)]
    /\ hist' = [hist EXCEPT ![t].status = s, ![t].n = @ + 1]
    /\ UNCHANGED <<pc, call, rendered, ioRes, res, stdoutS, stderrS, custom, lock>>

\* ------------------------------------------------------------------- print
\* Status::print up to its first write: `self` is consumed and the status
\* is rendered (line 248).
print(t, self, stream, msg, meta) ==
    /\ st' = [st EXCEPT ![t] = self]
    /\ rendered' = [rendered EXCEPT ![t] = color_str(self.color, self.bold, self.status)]
    /\ call' = [call EXCEPT ![t] = [meta EXCEPT !.dest = stream, !.msg = msg]]
    /\ pc' = [pc EXCEPT ![t] = "w1"]
    /\ UNCHANGED <<hist, ioRes, res, stdoutS, stderrS, custom>>

\* Faulty variant: print_stdout hands print the unlocked stdout().
print_stdout_unlocked(t, self, msg, meta) ==
    /\ UNCHANGED lock
    /\ print(t, self, "Stdout", msg, meta)

\* stdout().lock() blocks until the lock is free; the guard is print's stream.
print_stdout(t, self, msg, meta) ==
    /\ lock["Stdout"] = NoThread
    /\ lock' = [lock EXCEPT !["Stdout"] = t]
    /\ print(t, self, "Stdout", msg, meta)

print_stderr(t, self, msg, meta) ==
    /\ lock["Stderr"] = NoThread
    /\ lock' = [lock EXCEPT !["Stderr"] = t]
    /\ print(t, self, "Stderr", msg, meta)

print_custom(t, self, msg, meta) ==
    /\ UNCHANGED lock
    /\ print(t, self, "Custom", msg, meta)

Method(name) == [NoCall EXCEPT !.entry = name, !.via = "method"]

CallPrintStdout(t, msg) ==
    /\ pc[t] = "cfg"
    /\ print_stdout(t, st[t], msg, Method("print_stdout"))

CallPrintStderr(t, msg) ==
    /\ pc[t] = "cfg"
    /\ print_stderr(t, st[t], msg, Method("print_stderr"))

CallPrint(t, msg) ==
    /\ pc[t] = "cfg"
    /\ print_custom(t, st[t], msg, Method("print"))

\* ------------------------------------------------------------------ macros
Macro(name, s, m, explicit) ==
    [NoCall EXCEPT !.entry = name, !.via = "macro", !.argStatus = s,
                   !.argMsg = m, !.explicit = explicit]

\* carlog!(status, message, bold, justify, color, stream), lines 316-335
carlog(t, s, message, b, j, c, stream, meta) ==
    LET s0 == status(color(new, c), s)
        s1 == IF b THEN bold(s0) ELSE s0
        s2 == IF j THEN justify(s1) ELSE s1
    IN  CASE stream = "Stdout" -> print_stdout(t, s2, message, meta)
          [] stream = "Stderr" -> print_stderr(t, s2, message, meta)
          [] stream = "Custom" -> print_custom(t, s2, message, meta)

\* carlog!(status, message, color), lines 306-315
carlog_color(t, s, message, c, meta) ==
    carlog(t, s, message, FALSE, FALSE, c, CarlogStreamDefault, meta)

\* carlog!(status, message), lines 303-305
carlog_plain(t, s, message, meta) ==
    carlog_color(t, s, message, CargoColorDefault, meta)

carlog_info(t, s, message, stream, meta) ==
    carlog(t, s, <<32>> \o message, TRUE, TRUE, "Cyan", stream, meta)

carlog_info_default(t, s, message, meta) ==
    carlog_info(t, s, message, CarlogStreamDefault, meta)

carlog_ok(t, s, message, stream, meta) ==
    carlog(t, s, <<32>> \o message, TRUE, TRUE, "Green", stream, meta)

carlog_ok_default(t, s, message, meta) ==
    carlog_ok(t, s, message, CarlogStreamDefault, meta)

\* Faulty variant: the warning preset justifies its status.
carlog_warning_justified(t, message, stream, meta) ==
    carlog(t, WarningText, <<58, 32>> \o message, FALSE, TRUE, "Yellow", stream, meta)

carlog_warning(t, message, stream, meta) ==
    carlog(t, WarningText, <<58, 32>> \o message, FALSE, FALSE, "Yellow", stream, meta)

carlog_warning_default(t, message, meta) ==
    carlog_warning(t, message, CarlogStreamDefault, meta)

carlog_error(t, message, stream, meta) ==
    carlog(t, ErrorText, <<58, 32>> \o message, FALSE, FALSE, "Red", stream, meta)

carlog_error_default(t, message, meta) ==
    carlog_error(t, message, CarlogStreamDefault, meta)

CallCarlog(t, s, m, b, j, c, stream) ==
    /\ pc[t] = "idle"
    /\ carlog(t, s, m, b, j, c, stream, Macro("carlog", s, m, TRUE))

CallCarlogColor(t, s, m, c) ==
    /\ pc[t] = "idle"
    /\ carlog_color(t, s, m, c, Macro("carlog", s, m, FALSE))

CallCarlogPlain(t, s, m) ==
    /\ pc[t] = "idle"
    /\ carlog_plain(t, s, m, Macro("carlog", s, m, FALSE))

CallCarlogInfo(t, s, m, stream) ==
    /\ pc[t] = "idle"
    /\ carlog_info(t, s, m, stream, Macro("carlog_info", s, m, TRUE))

CallCarlogInfoDefault(t, s, m) ==
    /\ pc[t] = "idle"
    /\ carlog_info_default(t, s, m, Macro("carlog_info", s, m, FALSE))

CallCarlogOk(t, s, m, stream) ==
    /\ pc[t] = "idle"
    /\ carlog_ok(t, s, m, stream, Macro("carlog_ok", s, m, TRUE))

CallCarlogOkDefault(t, s, m) ==
    /\ pc[t] = "idle"
    /\ carlog_ok_default(t, s, m, Macro("carlog_ok", s, m, FALSE))

CallCarlogWarning(t, m, stream) ==
    /\ pc[t] = "idle"
    /\ carlog_warning(t, m, stream, Macro("carlog_warning", << >>, m, TRUE))

CallCarlogWarningDefault(t, m) ==
    /\ pc[t] = "idle"
    /\ carlog_warning_default(t, m, Macro("carlog_warning", << >>, m, FALSE))

CallCarlogError(t, m, stream) ==
    /\ pc[t] = "idle"
    /\ carlog_error(t, m, stream, Macro("carlog_error", << >>, m, TRUE))

CallCarlogErrorDefault(t, m) ==
    /\ pc[t] = "idle"
    /\ carlog_error_default(t, m, Macro("carlog_error", << >>, m, FALSE))

\* Faulty variant: the calls meant for standard error go to standard output.
Emit_StderrToStdout(t, ev) ==
    /\ stdoutS' = IF call[t].dest \in {"Stdout", "Stderr"} THEN Append(stdoutS, ev)
                  ELSE stdoutS
    /\ stderrS' = stderrS
    /\ custom' = IF call[t].dest = "Custom"
                 THEN [custom EXCEPT ![t] = Append(@, ev)] ELSE custom

\* One call on the destination print was given.
Emit(t, ev) ==
    /\ stdoutS' = IF call[t].dest = "Stdout" THEN Append(stdoutS, ev) ELSE stdoutS
    /\ stderrS' = IF call[t].dest = "Stderr" THEN Append(stderrS, ev) ELSE stderrS
    /\ custom' = IF call[t].dest = "Custom"
                 THEN [custom EXCEPT ![t] = Append(@, ev)] ELSE custom

WriteEv(t, data, o) ==
    [op |-> "write", by |-> t, err |-> o.err,
     data |-> IF o.err = "none" THEN data ELSE SubSeq(data, 1, o.cut)]

FlushEv(t, o) == [op |-> "flush", by |-> t, err |-> o.err, data |-> << >>]

\* Faulty variant: the result of a call is dropped (let _ = ...).
Try_IgnoreError(t, o, next) ==
    /\ pc' = [pc EXCEPT ![t] = next]
    /\ ioRes' = ioRes

\* The `?` after a call: go on, or return the error.
Try(t, o, next) ==
    IF o.err = "none"
    THEN /\ pc' = [pc EXCEPT ![t] = next]
         /\ ioRes' = ioRes
    ELSE /\ pc' = [pc EXCEPT ![t] = "ret"]
         /\ ioRes' = [ioRes EXCEPT ![t] = Err(o.err)]

\* Faulty variant: the padding shrinks with the calls the destinations have seen.
Write1Data_Stateful(self, text) ==
    IF self.justify
    THEN LET seen == Len(stdoutS) + Len(stderrS) + Len(custom[1]) + Len(custom[NumThreads])
             padding == Repeat(<<32>>, saturating_sub(Width, Len(self.status) + seen))
         IN  padding \o text
    ELSE text

Write1Data(self, text) ==
    IF self.justify
    THEN LET padding == Repeat(<<32>>, saturating_sub(Width, Len(self.status)))
         IN  padding \o text
    ELSE text

\* Faulty variant: write! in place of writeln!.
Write2Data_NoNewline(msg) == msg

Write2Data(msg) == msg \o <<10>>

\* lines 249-254
Write1(t, o) ==
    /\ pc[t] = "w1"
    /\ LET data == Write1Data(st[t], rendered[t])
       IN  /\ o.cut < Len(data)
           /\ Emit(t, WriteEv(t, data, o))
    /\ Try(t, o, "w2")
    /\ UNCHANGED <<st, hist, call, rendered, res, lock>>

\* line 255
Write2(t, o) ==
    /\ pc[t] = "w2"
    /\ LET data == Write2Data(call[t].msg)
       IN  /\ o.cut < Len(data)
           /\ Emit(t, WriteEv(t, data, o))
    /\ Try(t, o, "flush")
    /\ UNCHANGED <<st, hist, call, rendered, res, lock>>

\* lines 256-257
Flush(t, o) ==
    /\ pc[t] = "flush"
    /\ o.cut = 0
    /\ Emit(t, FlushEv(t, o))
    /\ IF o.err = "none"
       THEN ioRes' = [ioRes EXCEPT ![t] = Ok]
       ELSE ioRes' = [ioRes EXCEPT ![t] = Err(o.err)]
    /\ pc' = [pc EXCEPT ![t] = "ret"]
    /\ UNCHANGED <<st, hist, call, rendered, res, lock>>

\* Faulty variant: the macro drops the error (.ok()).
expect_swallow(r) == IF r.kind = "Err" THEN Ok ELSE r

\* .expect(..) of the carlog! macro
expect(r) == IF r.kind = "Err" THEN Panic(r.err) ELSE r

\* print returns: the stream (the lock guard) is dropped and the caller gets
\* the result, through expect in the macros.
Return(t) ==
    /\ pc[t] = "ret"
    /\ lock' = [d \in DOMAIN lock |-> IF lock[d] = t THEN NoThread ELSE lock[d]]
    /\ res' = [res EXCEPT ![t] = IF call[t].via = "macro" THEN expect(ioRes[t])
                                 ELSE ioRes[t]]
    /\ pc' = [pc EXCEPT ![t] = "done"]
    /\ UNCHANGED <<st, hist, call, rendered, ioRes, stdoutS, stderrS, custom>>

Next ==
    \E t \in Threads :
        \/ CallNew(t)
        \/ CallJustify(t)
        \/ CallBold(t)
        \/ \E c \in CargoColors : CallColor(t, c)
        \/ \E s \in StatusTexts : CallStatus(t, s)
        \/ \E m \in Messages : CallPrintStdout(t, m)
        \/ \E m \in Messages : CallPrintStderr(t, m)
        \/ \E m \in Messages : CallPrint(t, m)
        \/ \E s \in StatusTexts, m \in Messages, b \in BOOLEAN, j \in BOOLEAN,
              c \in CargoColors, stream \in CarlogStreams :
                CallCarlog(t, s, m, b, j, c, stream)
        \/ \E s \in StatusTexts, m \in Messages, c \in CargoColors :
                CallCarlogColor(t, s, m, c)
        \/ \E s \in StatusTexts, m \in Messages : CallCarlogPlain(t, s, m)
        \/ \E s \in StatusTexts, m \in Messages, stream \in CarlogStreams :
                CallCarlogInfo(t, s, m, stream)
        \/ \E s \in StatusTexts, m \in Messages : CallCarlogInfoDefault(t, s, m)
        \/ \E s \in StatusTexts, m \in Messages, stream \in CarlogStreams :
                CallCarlogOk(t, s, m, stream)
        \/ \E s \in StatusTexts, m \in Messages : CallCarlogOkDefault(t, s, m)
        \/ \E m \in Messages, stream \in CarlogStreams : CallCarlogWarning(t, m, stream)
        \/ \E m \in Messages : CallCarlogWarningDefault(t, m)
        \/ \E m \in Messages, stream \in CarlogStreams : CallCarlogError(t, m, stream)
        \/ \E m \in Messages : CallCarlogErrorDefault(t, m)
        \/ \E o \in Outcomes : Write1(t, o)
        \/ \E o \in Outcomes : Write2(t, o)
        \/ \E o \in Outcomes : Flush(t, o)
        \/ Return(t)

Spec == Init /\ [][Next]_vars

\* ------------------------------------------------------ concurrent callers
\* Every thread holds a configured Status and prints it once.
ConcConfigs ==
    {justify(bold(color(status(new, Compiled), "Green"))),
     color(status(new, WarningText), "Yellow")}
ConcMessages == {<<118, 49>>}

InitConc ==
    /\ pc = [t \in Threads |-> "cfg"]
    /\ st \in [Threads -> ConcConfigs]
    /\ hist = [t \in Threads |->
                 [justify |-> st[t].justify, bold |-> st[t].bold,
                  color |-> st[t].color, status |-> st[t].status, n |-> MaxCfgCalls]]
    /\ call = [t \in Threads |-> NoCall]
    /\ rendered = [t \in Threads |-> << >>]
    /\ ioRes = [t \in Threads |-> NoResult]
    /\ res = [t \in Threads |-> NoResult]
    /\ stdoutS = << >>
    /\ stderrS = << >>
    /\ custom = [t \in Threads |-> PriorTrace(t)]
    /\ lock = [d \in {"Stdout", "Stderr"} |-> NoThread]

NextConc ==
    \E t \in Threads :
        \/ \E m \in ConcMessages : CallPrintStdout(t, m)
        \/ \E m \in ConcMessages : CallPrintStderr(t, m)
        \/ \E m \in ConcMessages : CallPrint(t, m)
        \/ \E o \in ConcOutcomes : Write1(t, o)
        \/ \E o \in ConcOutcomes : Write2(t, o)
        \/ \E o \in ConcOutcomes : Flush(t, o)
        \/ Return(t)

SpecConc == InitConc /\ [][NextConc]_vars

\* ----------------------------------------------------------------- helpers
\* The calls thread t made on a destination, in order.
Mine(t, trace) == LET ByT(e) == e.by = t IN SelectSeq(trace, ByT)

\* The destination thread t's call selected.
Trace(t) ==
    CASE call[t].dest = "Stdout" -> stdoutS
      [] call[t].dest = "Stderr" -> stderrS
      [] call[t].dest = "Custom" -> custom[t]
      [] OTHER -> << >>

RECURSIVE Data(_)
Data(evs) == IF evs = << >> THEN << >> ELSE Head(evs).data \o Data(Tail(evs))

StartsWith(s, p) == Len(p) <= Len(s) /\ SubSeq(s, 1, Len(p)) = p
EndsWith(s, p) == Len(p) <= Len(s) /\ SubSeq(s, Len(s) - Len(p) + 1, Len(s)) = p

InPrint(t) == pc[t] \in {"w1", "w2", "flush", "ret", "done"}
Returned(t) == pc[t] \in {"ret", "done"}
Active == {t \in Threads : InPrint(t)}

\* ---------------------------------------------------------------------- C1
\* C1: a successful print has made exactly three calls on its destination,
\* in this order: a write of pad ++ rendered status (pad a run of spaces,
\* empty without justify), a write of message ++ "\n", and one flush; so the
\* destination received pad ++ rendered ++ message ++ "\n" with nothing in
\* between, and no flush came before or between the writes.
C1_PrintDeliversLineThenFlushes ==
    \A t \in Active :
        LET ev == Mine(t, Trace(t))
        IN  /\ \A i \in 1..Len(ev) : ev[i].op = "flush" => i = 3 /\ i = Len(ev)
            /\ (Returned(t) /\ ioRes[t] = Ok) =>
                 /\ Len(ev) = 3
                 /\ ev[1].op = "write" /\ ev[2].op = "write" /\ ev[3].op = "flush"
                 /\ \E n \in 0..Width :
                      /\ ~st[t].justify => n = 0
                      /\ Data(ev) = Repeat(<<32>>, n)
                                      \o color_str(st[t].color, st[t].bold, st[t].status)
                                      \o call[t].msg \o <<10>>

C1_Witness ==
    \E t \in Threads :
        /\ pc[t] = "done" /\ ioRes[t] = Ok /\ call[t].entry = "print"
        /\ st[t].justify /\ st[t].status = Compiled /\ call[t].msg # << >>

\* ---------------------------------------------------------------------- C2
\* C2: the padding written before the rendered status is 12 - L spaces for a
\* raw status text of L characters (none when L > 12, none without justify),
\* and the text is written whole.
C2_PaddingFromCharacterCount ==
    \A t \in Active :
        LET ev == Mine(t, Trace(t))
            L == CharCount(st[t].status)
        IN  (Len(ev) >= 1 /\ ev[1].err = "none") =>
                ev[1].data =
                    Repeat(<<32>>, IF st[t].justify THEN saturating_sub(Width, L) ELSE 0)
                        \o rendered[t]

\* ---------------------------------------------------------------------- C3
Presets == {"carlog_ok", "carlog_info", "carlog_warning", "carlog_error"}

Recipe(preset, s) ==
    CASE preset = "carlog_ok" -> justify(bold(color(status(new, s), "Green")))
      [] preset = "carlog_info" -> justify(bold(color(status(new, s), "Cyan")))
      [] preset = "carlog_warning" -> color(status(new, WarningText), "Yellow")
      [] preset = "carlog_error" -> color(status(new, ErrorText), "Red")

RecipeMessage(preset, m) ==
    IF preset \in {"carlog_ok", "carlog_info"} THEN <<32>> \o m ELSE <<58, 32>> \o m

\* What the builder's print writes for a Status and a message.
PrintOutput(self, msg) ==
    Write1Data(self, color_str(self.color, self.bold, self.status)) \o Write2Data(msg)

\* C3: a preset called with status s and message m prints the Status of its
\* recipe with the message of its recipe (" " ++ m for ok and info, ": " ++ m
\* for warning and error), and its output is what the builder's print writes
\* for them; the output of warning and error starts with the escape byte, not
\* with padding.
C3_PresetsFollowRecipes ==
    \A t \in Active :
        call[t].entry \in Presets =>
            LET self == Recipe(call[t].entry, call[t].argStatus)
                msg == RecipeMessage(call[t].entry, call[t].argMsg)
                written == Data(Mine(t, Trace(t)))
            IN  /\ st[t] = self
                /\ call[t].msg = msg
                /\ (Returned(t) /\ ioRes[t] = Ok) =>
                     /\ written = PrintOutput(self, msg)
                     /\ call[t].entry \in {"carlog_warning", "carlog_error"} =>
                          written[1] = 27

C3_Witness ==
    \E t \in Threads :
        /\ pc[t] = "done" /\ res[t] = Ok /\ call[t].entry = "carlog_warning"
        /\ call[t].argMsg # << >> /\ call[t].dest = "Custom"

\* ---------------------------------------------------------------------- C4
\* The escape parameters of each color, as the tests of lib.rs expect them.
ColorCode(c) ==
    CASE c = "Green" -> <<51, 50>>
      [] c = "Cyan" -> <<51, 54>>
      [] c = "Yellow" -> <<57, 51>>
      [] c = "Red" -> <<57, 49>>
      [] c = "White" -> <<51, 55>>
      [] c = "Black" -> <<51, 48>>

ColorPrefix(c) == <<27, 91>> \o ColorCode(c) \o <<109>>
BoldColorPrefix(c) == <<27, 91, 49, 59>> \o ColorCode(c) \o <<109>>

\* C4 as stated: every rendering of a non-empty text starts with the fixed
\* escape prefix of its color and ends with the reset sequence.
C4_StartsWithColorPrefix ==
    \A t \in Active :
        st[t].status # << >> =>
            /\ StartsWith(rendered[t], ColorPrefix(st[t].color))
            /\ EndsWith(rendered[t], <<27, 91, 48, 109>>)

\* C4 amended: the rendering is one escape sequence, the text unchanged and
\* one reset: ESC[<code>m text ESC[0m, and ESC[1;<code>m text ESC[0m when
\* bold (the bold parameter first, in the same sequence, not nested).
C4_RenderedForm ==
    \A t \in Active :
        rendered[t] =
            (IF st[t].bold THEN BoldColorPrefix(st[t].color) ELSE ColorPrefix(st[t].color))
                \o st[t].status \o <<27, 91, 48, 109>>

C4_Witness ==
    \E t \in Threads :
        /\ InPrint(t) /\ st[t].bold /\ st[t].color = "Cyan" /\ st[t].status = Compiled
        /\ rendered[t] = <<27, 91, 49, 59, 51, 54, 109>> \o Compiled \o <<27, 91, 48, 109>>

\* ---------------------------------------------------------------------- C5
\* C5: print makes at most one attempt of each step, in order (write, write,
\* flush); a failed call is the last one it makes; it returns the error of
\* the failed call, and Ok only after three successful calls; print,
\* print_stdout and print_stderr hand that result to their caller.
C5_PrintFailsFast ==
    \A t \in Active :
        LET ev == Mine(t, Trace(t))
            n == Len(ev)
        IN  /\ n <= 3
            /\ \A i \in 1..n : ev[i].op = (IF i <= 2 THEN "write" ELSE "flush")
            /\ \A i \in 1..n : ev[i].err # "none" => i = n
            /\ Returned(t) =>
                 /\ n >= 1
                 /\ ev[n].err # "none" => ioRes[t] = Err(ev[n].err)
                 /\ ev[n].err = "none" => (n = 3 /\ ioRes[t] = Ok)
            /\ ~Returned(t) => ioRes[t] = NoResult
            /\ (pc[t] = "done" /\ call[t].via = "method") => res[t] = ioRes[t]

C5_Witness ==
    \E t \in Threads :
        LET ev == Mine(t, Trace(t))
        IN  /\ pc[t] = "done" /\ call[t].via = "method"
            /\ Len(ev) = 2 /\ ev[2].err = "WriteZero" /\ res[t] = Err("WriteZero")

\* ---------------------------------------------------------------------- C6
\* C6 as stated: every entry point hands an I/O failure to its caller as a
\* failure value.
C6_FailureReturnedAsValue ==
    \A t \in Threads :
        (pc[t] = "done" /\ ioRes[t].kind = "Err") => res[t] = ioRes[t]

\* C6 amended: print, print_stdout and print_stderr return the I/O error to
\* their caller; the carlog! macro and the four presets return no value and
\* panic with that error (expect); no entry point reports success after a
\* failed call, and none repeats a call.
C6_FailureSurfaced ==
    \A t \in Threads :
        pc[t] = "done" =>
            LET ev == Mine(t, Trace(t))
                failed == \E i \in 1..Len(ev) : ev[i].err # "none"
            IN  /\ Len(ev) <= 3
                /\ failed => ioRes[t].kind = "Err"
                /\ ~failed => res[t] = Ok
                /\ (failed /\ call[t].via = "method") => res[t] = Err(ioRes[t].err)
                /\ (failed /\ call[t].via = "macro") => res[t] = Panic(ioRes[t].err)

C6_Witness ==
    \E t \in Threads :
        /\ pc[t] = "done" /\ call[t].entry = "carlog_ok"
        /\ ioRes[t] = Err("BrokenPipe") /\ res[t] = Panic("BrokenPipe")

\* ---------------------------------------------------------------------- C7
EntryDest(c) ==
    CASE c.entry = "print_stdout" -> c.dest = "Stdout"
      [] c.entry = "print_stderr" -> c.dest = "Stderr"
      [] c.entry = "print" -> c.dest = "Custom"
      [] OTHER -> (~c.explicit => c.dest = "Stdout")

C9_SettersChangeOwnFieldOnly ==
    \A t \in Threads :
        pc[t] = "cfg" =>
            LET x == st[t]
            IN  /\ x.justify = hist[t].justify
                /\ x.bold = hist[t].bold
                /\ x.color = hist[t].color
                /\ x.status = hist[t].status
                /\ justify(bold(x)) = bold(justify(x))
                /\ justify(justify(x)) = justify(x) /\ justify(x).justify
                /\ bold(bold(x)) = bold(x) /\ bold(x).bold
                /\ \A c \in CargoColors :
                      /\ color(justify(x), c) = justify(color(x, c))
                      /\ color(bold(x), c) = bold(color(x, c))
                      /\ \A s \in StatusTexts :
                            color(status(x, s), c) = status(color(x, c), s)
                /\ \A s \in StatusTexts :
                      /\ status(justify(x), s) = justify(status(x, s))
                      /\ status(bold(x), s) = bold(status(x, s))

C9_Witness ==
    \E t \in Threads :
        /\ pc[t] = "cfg" /\ hist[t].n = 3
        /\ st[t].bold /\ ~st[t].justify /\ st[t].color = "Red" /\ st[t].status = Compiled

\* --------------------------------------------------------------------- C10
Contiguous(trace) ==
    \A i \in 1..Len(trace) : \A k \in i..Len(trace) :
        trace[i].by = trace[k].by => \A j \in i..k : trace[j].by = trace[i].by

\* C10: a thread in print_stdout (print_stderr) holds the stream's lock from
\* before its first write until it returns after the flush, and the calls of
\* each thread on standard output (standard error) are contiguous: no call
\* of another thread lies between them.
C10_LinesNotInterleaved ==
    /\ \A t \in Threads :
          (pc[t] \in {"w1", "w2", "flush", "ret"} /\ call[t].dest \in DOMAIN lock)
              => lock[call[t].dest] = t
    /\ Contiguous(stdoutS)
    /\ Contiguous(stderrS)

C10_Witness ==
    \E t \in Threads : \E u \in Threads :
        /\ t # u /\ pc[t] = "done" /\ pc[u] = "done"
        /\ res[t] = Ok /\ res[u] = Ok
        /\ call[t].dest = "Stdout" /\ call[u].dest = "Stdout"
        /\ Len(stdoutS) = 6

====
